---- MODULE Spec2Model ----
(***************************************************************************)
(* A model of the multi-core scheduler of libscheduler.c and of the        *)
(* ordered array libpriqueue.c it keeps its waiting jobs in.               *)
(*                                                                         *)
(* A job_t lives on the heap; its address is modelled by its pid, which    *)
(* the driver keeps unique.  Array indices are the C indices (from 0); a   *)
(* C array a of length n is the sequence a with a[i] stored at a[i+1].     *)
(***************************************************************************)
EXTENDS Integers, Sequences, FiniteSets, TLC

\* Bounds of the driver's inputs.
MaxJobs == 3
MaxTime == 3
MaxRun == 4
MaxPri == 1
MaxCores == 2
\* Bound of the queue's own driver: the offers of one run.
MaxOffers == 4

NULL == 0
\* The content of a queue_array cell that malloc or realloc handed out and
\* nothing has written yet.
Uninit == -1

FCFS == "FCFS"
SJF == "SJF"
PSJF == "PSJF"
PRI == "PRI"
PPRI == "PPRI"
RR == "RR"
Schemes == {FCFS, SJF, PSJF, PRI, PPRI, RR}

Pids == 1..MaxJobs

VARIABLES
    scheduler_scheme,        \* scheduler_ptr->scheduler_scheme
    core_count,              \* scheduler_ptr->core_count
    current_jobs_on_cores,   \* [0..core_count-1 -> pid or NULL]
    job_queue,               \* the priqueue_t: queue_array, curr_size, max_size
    job,                     \* the heap: pid -> job_t, with its allocation state
    total_wait_time,
    total_response_time,
    total_turn_around_time,
    total_jobs_count,
    time,                    \* the driver's clock
    arrived_now,             \* a job has arrived at this tick already
    fault,                   \* the arrival handler indexed the core array at -1
    last,                    \* the last call: its name, arguments and return value
    first_dispatch,          \* history: pid -> tick of its first dispatch, or -1
    finished_run,            \* history: sum of the run times of the finished jobs
    finish_calls,            \* history: number of scheduler_job_finished calls
    offered,                 \* history of the queue driven alone: the elements offered
    polls,                   \* history of the queue driven alone: elements polled
    remove_at_called         \* history of the queue driven alone

vars == <<scheduler_scheme, core_count, current_jobs_on_cores, job_queue, job,
          total_wait_time, total_response_time, total_turn_around_time,
          total_jobs_count, time, arrived_now, fault, last, first_dispatch,
          finished_run, finish_calls, offered, polls, remove_at_called>>

\* The history of the queue driven alone; the simulator leaves it as it is.
queue_history == <<offered, polls, remove_at_called>>

----------------------------------------------------------------------------
\* job_t

NoJob == [alloc |-> "none", arrival_time |-> 0, priority |-> 0, used_time |-> 0,
          total_time_needed |-> 0, last_start_time |-> 0, job_response_time |-> 0]

FreedJob == [NoJob EXCEPT !.alloc = "freed"]

remainingTime(J, p) == J[p].total_time_needed - J[p].used_time

----------------------------------------------------------------------------
\* The comparers

\* FCFScompare with the sign wrong: the predecessor always has to follow.
FCFScompare_Positive(J, a, b) == 1

FCFScompare(J, a, b) == -1

SJFcompare(J, a, b) ==
    IF remainingTime(J, a) = remainingTime(J, b)
    THEN J[a].arrival_time - J[b].arrival_time
    ELSE remainingTime(J, a) - remainingTime(J, b)

PRIcompare(J, a, b) ==
    IF J[a].priority = J[b].priority
    THEN (J[b].arrival_time - J[a].arrival_time) * (-1)
    ELSE (J[b].priority - J[a].priority) * (-1)

\* The comparer scheduler_start_up binds to the queue.
comparer(scheme, J, a, b) ==
    CASE scheme \in {FCFS, RR} -> FCFScompare(J, a, b)
      [] scheme \in {SJF, PSJF} -> SJFcompare(J, a, b)
      [] scheme \in {PRI, PPRI} -> PRIcompare(J, a, b)

----------------------------------------------------------------------------
\* libpriqueue

priqueue_init == [queue_array |-> <<Uninit, Uninit>>, max_size |-> 2, curr_size |-> 0]

\* The sift loop of priqueue_offer: <<queue_array, curr_idx>> when it ends.
RECURSIVE SiftForward(_, _, _, _)
SiftForward(scheme, J, arr, curr_idx) ==
    IF curr_idx > 0 /\ 0 < comparer(scheme, J, arr[curr_idx], arr[curr_idx + 1])
    THEN SiftForward(scheme, J,
                     [arr EXCEPT ![curr_idx] = arr[curr_idx + 1],
                                 ![curr_idx + 1] = arr[curr_idx]],
                     curr_idx - 1)
    ELSE <<arr, curr_idx>>

\* priqueue_offer without its sift loop: the element stays at the back.
priqueue_offer_NoSift(scheme, J, q, ptr) ==
    LET grown == IF q.curr_size + 1 >= q.max_size
                 THEN [q EXCEPT !.queue_array = @ \o [i \in 1..q.max_size |-> Uninit],
                                !.max_size = 2 * @]
                 ELSE q
    IN  [q |-> [queue_array |-> [grown.queue_array EXCEPT ![q.curr_size + 1] = ptr],
                max_size |-> grown.max_size, curr_size |-> q.curr_size + 1],
         ret |-> q.curr_size]

\* priqueue_offer growing only once the array is full (curr_size >= max_size
\* for curr_size + 1 >= max_size).
priqueue_offer_LateGrow(scheme, J, q, ptr) ==
    LET grown == IF q.curr_size >= q.max_size
                 THEN [q EXCEPT !.queue_array = @ \o [i \in 1..q.max_size |-> Uninit],
                                !.max_size = 2 * @]
                 ELSE q
        put == [grown.queue_array EXCEPT ![q.curr_size + 1] = ptr]
        sifted == SiftForward(scheme, J, put, q.curr_size)
    IN  [q |-> [queue_array |-> sifted[1], max_size |-> grown.max_size,
                curr_size |-> q.curr_size + 1],
         ret |-> sifted[2]]

\* priqueue_offer: [q |-> the queue afterwards, ret |-> the index returned].
priqueue_offer(scheme, J, q, ptr) ==
    LET grown == IF q.curr_size + 1 >= q.max_size
                 THEN [q EXCEPT !.queue_array = @ \o [i \in 1..q.max_size |-> Uninit],
                                !.max_size = 2 * @]
                 ELSE q
        put == [grown.queue_array EXCEPT ![q.curr_size + 1] = ptr]
        sifted == SiftForward(scheme, J, put, q.curr_size)
    IN  [q |-> [queue_array |-> sifted[1], max_size |-> grown.max_size,
                curr_size |-> q.curr_size + 1],
         ret |-> sifted[2]]

\* priqueue_poll without its shift loop: the size drops, the cells stay.
priqueue_poll_NoShift(q) ==
    IF q.curr_size = 0
    THEN [q |-> q, ret |-> NULL]
    ELSE [q |-> [q EXCEPT !.curr_size = @ - 1], ret |-> q.queue_array[1]]

\* priqueue_poll: [q |-> the queue afterwards, ret |-> the head or NULL].
priqueue_poll(q) ==
    IF q.curr_size = 0
    THEN [q |-> q, ret |-> NULL]
    ELSE [q |-> [q EXCEPT !.curr_size = @ - 1,
                          !.queue_array = [i \in 1..q.max_size |->
                              IF i <= q.curr_size - 1 THEN q.queue_array[i + 1]
                              ELSE q.queue_array[i]]],
          ret |-> q.queue_array[1]]

\* What a read of a queue_array cell yields: its content, and for a cell that
\* nothing has written any word, NULL or not (Uninit stands for the others).
ReadCell(v) == IF v = Uninit THEN {NULL, Uninit} ELSE {v}

\* priqueue_peek: the values it can return.  It reads queue_array[0] whatever
\* curr_size is.
priqueue_peek(q) == ReadCell(q.queue_array[1])

\* priqueue_at: the values it can return.  index >= max_size is an unsigned
\* comparison, so a negative index is "not less than max_size" too.
priqueue_at(q, index) ==
    IF index < 0 \/ index >= q.max_size
    THEN {NULL}
    ELSE ReadCell(q.queue_array[index + 1])

\* priqueue_remove_at, for an index of the occupied range: [q, ret].  The
\* loop copies cell idx+1 into cell idx for idx from index to curr_size-1;
\* curr_size is not written.
priqueue_remove_at(q, index) ==
    [q |-> [q EXCEPT !.queue_array = [i \in 1..q.max_size |->
                         IF index + 1 <= i /\ i <= q.curr_size
                         THEN q.queue_array[i + 1]
                         ELSE q.queue_array[i]]],
     ret |-> q.queue_array[index + 1]]

priqueue_size(q) == q.curr_size

\* The occupied part of the queue, front first.
Waiting(q) == SubSeq(q.queue_array, 1, q.curr_size)

----------------------------------------------------------------------------
\* libscheduler: the searches over the core array

Cores == 0..(core_count - 1)

RECURSIVE idleCoreFrom(_, _, _)
idleCoreFrom(C, n, i) ==
    IF i >= n THEN -1
    ELSE IF C[i] = NULL THEN i
    ELSE idleCoreFrom(C, n, i + 1)

\* idleCore keeping the last idle core its loop meets instead of the first.
idleCore_Highest(C, n) ==
    IF \E i \in 0..(n - 1) : C[i] = NULL
    THEN CHOOSE i \in 0..(n - 1) :
            C[i] = NULL /\ \A k \in 0..(n - 1) : C[k] = NULL => k <= i
    ELSE -1

idleCore(C, n) == idleCoreFrom(C, n, 0)

\* The loop of findLongestRemainingJob from core i on, with its three locals.
\* It runs with every core occupied.
RECURSIVE LongestFrom(_, _, _, _, _, _, _)
LongestFrom(C, J, n, i, core, longest_length, arrival_time) ==
    IF i >= n THEN core
    ELSE IF C[i] # NULL /\ remainingTime(J, C[i]) > longest_length
    THEN LongestFrom(C, J, n, i + 1, i, remainingTime(J, C[i]), J[C[i]].arrival_time)
    ELSE IF remainingTime(J, C[i]) = longest_length
            /\ J[C[i]].arrival_time > arrival_time
    THEN LongestFrom(C, J, n, i + 1, i, longest_length, J[C[i]].arrival_time)
    ELSE LongestFrom(C, J, n, i + 1, core, longest_length, arrival_time)

findLongestRemainingJob(C, J, n) == LongestFrom(C, J, n, 0, -1, 0, 0)

RECURSIVE WorstFrom(_, _, _, _, _, _, _)
WorstFrom(C, J, n, i, core, worst_priority, arrival_time) ==
    IF i >= n THEN core
    ELSE IF C[i] # NULL /\ J[C[i]].priority > worst_priority
    THEN WorstFrom(C, J, n, i + 1, i, J[C[i]].priority, J[C[i]].arrival_time)
    ELSE IF C[i] # NULL /\ J[C[i]].priority = worst_priority
            /\ J[C[i]].arrival_time > arrival_time
    THEN WorstFrom(C, J, n, i + 1, i, worst_priority, J[C[i]].arrival_time)
    ELSE WorstFrom(C, J, n, i + 1, core, worst_priority, arrival_time)

findWorstPriorityJob(C, J, n) == WorstFrom(C, J, n, 0, -1, 0, 0)

----------------------------------------------------------------------------
\* libscheduler: the three event handlers, as functions of the state they
\* read.  The outcome of a call is [cores, queue, job, ret, victim, fault];
\* scheduler_new_job is the set of its outcomes, one wherever C defines it.

NoVictim == -2

Outcome(C, q, J, ret, victim, flt) ==
    [cores |-> C, queue |-> q, job |-> J, ret |-> ret, victim |-> victim, fault |-> flt]

\* The displace/install/report sequence of the PSJF and PPRI branches.
Displace(scheme, C, q, J, job_number, t, idx) ==
    LET old_job == C[idx]
        J1 == [J EXCEPT ![old_job].used_time = @ + (t - J[old_job].last_start_time),
                        ![job_number].last_start_time = t]
    IN  Outcome([C EXCEPT ![idx] = job_number],
                priqueue_offer(scheme, J1, q, old_job).q, J1, idx, idx, FALSE)

Enqueue(scheme, C, q, J, job_number, victim) ==
    Outcome(C, priqueue_offer(scheme, J, q, job_number).q, J, -1, victim, FALSE)

\* current_jobs_on_cores[-1] is read: the word in front of the array is taken
\* for a job_t*.  The call either dies or corrupts memory there (fault), or
\* reads a value that sends it down the enqueue branch.
OutOfRangeVictim(scheme, C, q, J, job_number) ==
    { Outcome(C, q, J, -1, -1, TRUE), Enqueue(scheme, C, q, J, job_number, -1) }

\* The PSJF branch comparing with < where the code has <=: an arrival as long
\* as the victim's remaining time displaces it.
psjfBranch_NonStrict(scheme, C, q, J, n, job_number, t) ==
    LET longest_job == findLongestRemainingJob(C, J, n)
        longest_job_current_remaining_time ==
            remainingTime(J, C[longest_job]) - (t - J[C[longest_job]].last_start_time)
    IN  IF longest_job = -1
        THEN OutOfRangeVictim(scheme, C, q, J, job_number)
        ELSE IF longest_job_current_remaining_time < J[job_number].total_time_needed
        THEN { Enqueue(scheme, C, q, J, job_number, longest_job) }
        ELSE { Displace(scheme, C, q, J, job_number, t, longest_job) }

psjfBranch(scheme, C, q, J, n, job_number, t) ==
    LET longest_job == findLongestRemainingJob(C, J, n)
        longest_job_last_remaining_time == remainingTime(J, C[longest_job])
        longest_job_current_remaining_time ==
            longest_job_last_remaining_time - (t - J[C[longest_job]].last_start_time)
    IN  IF longest_job = -1
        THEN OutOfRangeVictim(scheme, C, q, J, job_number)
        ELSE IF longest_job_current_remaining_time <= J[job_number].total_time_needed
        THEN { Enqueue(scheme, C, q, J, job_number, longest_job) }
        ELSE { Displace(scheme, C, q, J, job_number, t, longest_job) }

ppriBranch(scheme, C, q, J, n, job_number, t) ==
    LET worst_priority_idx == findWorstPriorityJob(C, J, n)
    IN  IF worst_priority_idx = -1
        THEN OutOfRangeVictim(scheme, C, q, J, job_number)
        ELSE IF J[C[worst_priority_idx]].priority <= J[job_number].priority
        THEN { Enqueue(scheme, C, q, J, job_number, worst_priority_idx) }
        ELSE { Displace(scheme, C, q, J, job_number, t, worst_priority_idx) }

\* scheduler_new_job taking the PPRI branch under PRI as well.
scheduler_new_job_PriPreempts(scheme, C, q, J, n, job_number, t, running_time, priority) ==
    LET J0 == [J EXCEPT ![job_number] =
                   [alloc |-> "live", arrival_time |-> t, priority |-> priority,
                    used_time |-> 0, total_time_needed |-> running_time,
                    last_start_time |-> 0, job_response_time |-> 0]]
        first_core == idleCore(C, n)
    IN  IF first_core # -1
        THEN { Outcome([C EXCEPT ![first_core] = job_number], q,
                       [J0 EXCEPT ![job_number].last_start_time = t],
                       first_core, NoVictim, FALSE) }
        ELSE IF scheme = PSJF THEN psjfBranch(scheme, C, q, J0, n, job_number, t)
        ELSE IF scheme \in {PPRI, PRI} THEN ppriBranch(scheme, C, q, J0, n, job_number, t)
        ELSE { Enqueue(scheme, C, q, J0, job_number, NoVictim) }

scheduler_new_job(scheme, C, q, J, n, job_number, t, running_time, priority) ==
    LET J0 == [J EXCEPT ![job_number] =
                   [alloc |-> "live", arrival_time |-> t, priority |-> priority,
                    used_time |-> 0, total_time_needed |-> running_time,
                    last_start_time |-> 0, job_response_time |-> 0]]
        first_core == idleCore(C, n)
    IN  IF first_core # -1
        THEN { Outcome([C EXCEPT ![first_core] = job_number], q,
                       [J0 EXCEPT ![job_number].last_start_time = t],
                       first_core, NoVictim, FALSE) }
        ELSE IF scheme = PSJF THEN psjfBranch(scheme, C, q, J0, n, job_number, t)
        ELSE IF scheme = PPRI THEN ppriBranch(scheme, C, q, J0, n, job_number, t)
        ELSE { Enqueue(scheme, C, q, J0, job_number, NoVictim) }

\* The poll-and-install tail installing on core 0 whatever core_id is.
PollAndInstall_Core0(C, q, J, core_id, t) ==
    LET polled == priqueue_poll(q)
        new_job == polled.ret
        J1 == IF 0 = J[new_job].used_time
              THEN [J EXCEPT ![new_job].job_response_time = t - J[new_job].arrival_time]
              ELSE J
    IN  IF new_job = NULL
        THEN Outcome(C, polled.q, J, -1, NoVictim, FALSE)
        ELSE Outcome([C EXCEPT ![0] = new_job], polled.q,
                     [J1 EXCEPT ![new_job].last_start_time = t],
                     new_job, NoVictim, FALSE)

\* The tail scheduler_job_finished and scheduler_quantum_expired share: poll,
\* and install the polled job on core_id.
PollAndInstall(C, q, J, core_id, t) ==
    LET polled == priqueue_poll(q)
        new_job == polled.ret
        J1 == IF 0 = J[new_job].used_time
              THEN [J EXCEPT ![new_job].job_response_time = t - J[new_job].arrival_time]
              ELSE J
    IN  IF new_job = NULL
        THEN Outcome(C, polled.q, J, -1, NoVictim, FALSE)
        ELSE Outcome([C EXCEPT ![core_id] = new_job], polled.q,
                     [J1 EXCEPT ![new_job].last_start_time = t],
                     new_job, NoVictim, FALSE)

\* The fold taking the wait time from used_time, which a job that was never
\* displaced leaves at 0, instead of from total_time_needed.
FoldStatistics_WaitByUsed(J, old_job, t) ==
    [total_jobs_count |-> total_jobs_count + 1,
     total_wait_time |-> total_wait_time
                          + (t - J[old_job].arrival_time - J[old_job].used_time),
     total_turn_around_time |-> total_turn_around_time + (t - J[old_job].arrival_time),
     total_response_time |-> total_response_time + J[old_job].job_response_time]

\* The four running totals after scheduler_job_finished has folded old_job in.
FoldStatistics(J, old_job, t) ==
    [total_jobs_count |-> total_jobs_count + 1,
     total_wait_time |-> total_wait_time
                          + (t - J[old_job].arrival_time - J[old_job].total_time_needed),
     total_turn_around_time |-> total_turn_around_time + (t - J[old_job].arrival_time),
     total_response_time |-> total_response_time + J[old_job].job_response_time]

\* scheduler_job_finished without the line that clears the core slot.
scheduler_job_finished_NoClear(C, q, J, core_id, job_number, t) ==
    LET old_job == C[core_id]
    IN  PollAndInstall(C, q, [J EXCEPT ![old_job] = FreedJob], core_id, t)

\* scheduler_job_finished that frees the job and never looks at the queue.
scheduler_job_finished_NoPoll(C, q, J, core_id, job_number, t) ==
    LET old_job == C[core_id]
    IN  Outcome([C EXCEPT ![core_id] = NULL], q, [J EXCEPT ![old_job] = FreedJob],
                -1, NoVictim, FALSE)

scheduler_job_finished(C, q, J, core_id, job_number, t) ==
    LET old_job == C[core_id]
    IN  PollAndInstall([C EXCEPT ![core_id] = NULL], q,
                       [J EXCEPT ![old_job] = FreedJob], core_id, t)

scheduler_quantum_expired(scheme, C, q, J, core_id, t) ==
    LET old == C[core_id]
        J1 == [J EXCEPT ![old].used_time = @ + (t - J[old].last_start_time)]
    IN  PollAndInstall(C, priqueue_offer(scheme, J1, q, old).q, J1, core_id, t)

\* The float the three average functions return, as the pair <<total, count>>
\* it is the quotient of; <<0, 1>> is the 0 they return for no finished job.
scheduler_average_waiting_time ==
    IF total_jobs_count = 0 THEN <<0, 1>> ELSE <<total_wait_time, total_jobs_count>>

scheduler_average_turnaround_time ==
    IF total_jobs_count = 0 THEN <<0, 1>> ELSE <<total_turn_around_time, total_jobs_count>>

scheduler_average_response_time ==
    IF total_jobs_count = 0 THEN <<0, 1>> ELSE <<total_response_time, total_jobs_count>>

----------------------------------------------------------------------------
\* The simulator that drives the library.  It calls one handler at a time,
\* with a clock that never goes back; at most one job arrives per tick
\* ("every job will have a unique arrival time"); it reports a job finished
\* at the tick the job's remaining time runs out and not before; it reports a
\* quantum expiry only under RR, for a job that has run and is not finished.
\* Only PRIcompare and the PPRI branch read a job's priority, so the traces of
\* the other four schemes carry one priority value.

Call(op, core, pid, ret, victim) ==
    [op |-> op, core |-> core, pid |-> pid, ret |-> ret, victim |-> victim]

OnCore(C) == {C[c] : c \in DOMAIN C} \ {NULL}

\* What the occupant of a core still has to run at the driver's clock.
CurrentRemaining(p) ==
    job[p].total_time_needed - job[p].used_time - (time - job[p].last_start_time)

Priorities == IF scheduler_scheme \in {PRI, PPRI} THEN 0..MaxPri ELSE {0}

NextPid == Cardinality({p \in Pids : job[p].alloc # "none"}) + 1

\* first_dispatch after a call at tick t that turned the core array C into C2.
NoteDispatch(C, C2, t) ==
    [p \in Pids |-> IF p \in OnCore(C2) \ OnCore(C) /\ first_dispatch[p] = -1
                    THEN t ELSE first_dispatch[p]]

\* scheduler_start_up(cores, scheme)
Init ==
    /\ scheduler_scheme \in Schemes
    /\ core_count \in 1..MaxCores
    /\ current_jobs_on_cores = [c \in 0..(core_count - 1) |-> NULL]
    /\ job_queue = priqueue_init
    /\ job = [p \in Pids |-> NoJob]
    /\ total_wait_time = 0
    /\ total_response_time = 0
    /\ total_turn_around_time = 0
    /\ total_jobs_count = 0
    /\ time = 0
    /\ arrived_now = FALSE
    /\ fault = FALSE
    /\ last = Call("start_up", -1, NULL, -1, NoVictim)
    /\ first_dispatch = [p \in Pids |-> -1]
    /\ finished_run = 0
    /\ finish_calls = 0
    /\ offered = <<>>
    /\ polls = 0
    /\ remove_at_called = FALSE

NewJob ==
    /\ ~fault
    /\ ~arrived_now
    /\ NextPid <= MaxJobs
    /\ \E running_time \in 1..MaxRun, priority \in Priorities :
         \E r \in scheduler_new_job(scheduler_scheme, current_jobs_on_cores, job_queue,
                                    job, core_count, NextPid, time, running_time, priority) :
            /\ current_jobs_on_cores' = r.cores
            /\ job_queue' = r.queue
            /\ job' = r.job
            /\ fault' = r.fault
            /\ last' = Call("new_job", -1, NextPid, r.ret, r.victim)
            /\ first_dispatch' = NoteDispatch(current_jobs_on_cores, r.cores, time)
    /\ arrived_now' = TRUE
    /\ UNCHANGED <<scheduler_scheme, core_count, total_wait_time, total_response_time,
                   total_turn_around_time, total_jobs_count, time, finished_run,
                   finish_calls, queue_history>>

JobFinished ==
    /\ ~fault
    /\ \E core_id \in Cores :
         /\ current_jobs_on_cores[core_id] # NULL
         /\ CurrentRemaining(current_jobs_on_cores[core_id]) = 0
         /\ LET old_job == current_jobs_on_cores[core_id]
                r == scheduler_job_finished(current_jobs_on_cores, job_queue, job,
                                            core_id, old_job, time)
                totals == FoldStatistics(job, old_job, time)
            IN  /\ current_jobs_on_cores' = r.cores
                /\ job_queue' = r.queue
                /\ job' = r.job
                /\ total_jobs_count' = totals.total_jobs_count
                /\ total_wait_time' = totals.total_wait_time
                /\ total_turn_around_time' = totals.total_turn_around_time
                /\ total_response_time' = totals.total_response_time
                /\ last' = Call("job_finished", core_id, old_job, r.ret, r.victim)
                /\ first_dispatch' =
                       [NoteDispatch(current_jobs_on_cores, r.cores, time)
                            EXCEPT ![old_job] = -1]
                /\ finished_run' = finished_run + job[old_job].total_time_needed
                /\ finish_calls' = finish_calls + 1
    /\ UNCHANGED <<scheduler_scheme, core_count, time, arrived_now, fault, queue_history>>

QuantumExpired ==
    /\ ~fault
    /\ scheduler_scheme = RR
    /\ \E core_id \in Cores :
         /\ current_jobs_on_cores[core_id] # NULL
         /\ time - job[current_jobs_on_cores[core_id]].last_start_time >= 1
         /\ CurrentRemaining(current_jobs_on_cores[core_id]) > 0
         /\ LET old == current_jobs_on_cores[core_id]
                r == scheduler_quantum_expired(scheduler_scheme, current_jobs_on_cores,
                                               job_queue, job, core_id, time)
            IN  /\ current_jobs_on_cores' = r.cores
                /\ job_queue' = r.queue
                /\ job' = r.job
                /\ last' = Call("quantum_expired", core_id, old, r.ret, r.victim)
                /\ first_dispatch' = NoteDispatch(current_jobs_on_cores, r.cores, time)
    /\ UNCHANGED <<scheduler_scheme, core_count, total_wait_time, total_response_time,
                   total_turn_around_time, total_jobs_count, time, arrived_now, fault,
                   finished_run, finish_calls, queue_history>>

\* The clock advances once every job that has run out has been reported.
Tick ==
    /\ ~fault
    /\ time < MaxTime
    /\ \A p \in OnCore(current_jobs_on_cores) : CurrentRemaining(p) > 0
    /\ time' = time + 1
    /\ arrived_now' = FALSE
    /\ last' = Call("tick", -1, NULL, -1, NoVictim)
    /\ UNCHANGED <<scheduler_scheme, core_count, current_jobs_on_cores, job_queue, job,
                   total_wait_time, total_response_time, total_turn_around_time,
                   total_jobs_count, fault, first_dispatch, finished_run, finish_calls,
                   queue_history>>

Next == NewJob \/ JobFinished \/ QuantumExpired \/ Tick

Spec == Init /\ [][Next]_vars

----------------------------------------------------------------------------
\* The queue driven alone: any interleaving of the calls of libpriqueue on one
\* priqueue_t, with the FCFS/RR comparer or with PRIcompare over elements of
\* fixed keys.  priqueue_remove_at gets indices of the occupied range only.
\* An offer whose comparer would dereference a cell that holds no element is
\* left out.

\* The elements offered: two, of different keys, each as often as the driver
\* likes.
QPtrs == {1, 2}

QElements ==
    [p \in Pids |-> [NoJob EXCEPT !.alloc = "live", !.arrival_time = p,
                                  !.priority = p % 2, !.total_time_needed = 1]]

QInit ==
    /\ scheduler_scheme \in {FCFS, PRI}
    /\ core_count = 1
    /\ current_jobs_on_cores = [c \in 0..0 |-> NULL]
    /\ job_queue = priqueue_init
    /\ job = QElements
    /\ total_wait_time = 0
    /\ total_response_time = 0
    /\ total_turn_around_time = 0
    /\ total_jobs_count = 0
    /\ time = 0
    /\ arrived_now = FALSE
    /\ fault = FALSE
    /\ last = Call("priqueue_init", -1, NULL, -1, NoVictim)
    /\ first_dispatch = [p \in Pids |-> -1]
    /\ finished_run = 0
    /\ finish_calls = 0
    /\ offered = <<>>
    /\ polls = 0
    /\ remove_at_called = FALSE

scheduler_unchanged ==
    UNCHANGED <<scheduler_scheme, core_count, current_jobs_on_cores, job,
                total_wait_time, total_response_time, total_turn_around_time,
                total_jobs_count, time, arrived_now, fault, first_dispatch,
                finished_run, finish_calls>>

QOffer ==
    /\ Len(offered) < MaxOffers
    /\ \/ scheduler_scheme = FCFS
       \/ \A i \in 1..job_queue.curr_size : job_queue.queue_array[i] \in Pids
    /\ \E ptr \in QPtrs :
         LET r == priqueue_offer(scheduler_scheme, job, job_queue, ptr)
         IN  /\ job_queue' = r.q
             /\ last' = Call("priqueue_offer", -1, ptr, r.ret, NoVictim)
             /\ offered' = Append(offered, ptr)
    /\ UNCHANGED <<polls, remove_at_called>>
    /\ scheduler_unchanged

QPoll ==
    /\ LET r == priqueue_poll(job_queue)
       IN  /\ job_queue' = r.q
           /\ last' = Call("priqueue_poll", -1, NULL, r.ret, NoVictim)
    /\ polls' = IF job_queue.curr_size = 0 THEN polls ELSE polls + 1
    /\ UNCHANGED <<offered, remove_at_called>>
    /\ scheduler_unchanged

QPeek ==
    /\ \E v \in priqueue_peek(job_queue) :
         last' = Call("priqueue_peek", -1, NULL, v, NoVictim)
    /\ UNCHANGED <<job_queue, queue_history>>
    /\ scheduler_unchanged

QAt ==
    /\ \E index \in -1..job_queue.max_size :
         \E v \in priqueue_at(job_queue, index) :
            last' = Call("priqueue_at", index, NULL, v, NoVictim)
    /\ UNCHANGED <<job_queue, queue_history>>
    /\ scheduler_unchanged

QSize ==
    /\ last' = Call("priqueue_size", -1, NULL, priqueue_size(job_queue), NoVictim)
    /\ UNCHANGED <<job_queue, queue_history>>
    /\ scheduler_unchanged

QRemoveAt ==
    /\ \E index \in 0..(job_queue.curr_size - 1) :
         LET r == priqueue_remove_at(job_queue, index)
         IN  /\ job_queue' = r.q
             /\ last' = Call("priqueue_remove_at", index, NULL, r.ret, NoVictim)
    /\ remove_at_called' = TRUE
    /\ UNCHANGED <<offered, polls>>
    /\ scheduler_unchanged

QNext == QOffer \/ QPoll \/ QPeek \/ QAt \/ QSize \/ QRemoveAt

QSpec == QInit /\ [][QNext]_vars

-----------------------------------------------------------------------------
\* The simulator run to its end: jobs arrive during the first MaxTime ticks
\* only, and the clock goes on for as long as a job is in the system.  The
\* driver reports every finish and every quantum expiry that is due, and its
\* clock does not stop while it may advance.

InSystem == {p \in Pids : job[p].alloc = "live"}

Arrival == time <= MaxTime /\ NewJob

Elapse ==
    /\ ~fault
    /\ time >= MaxTime
    /\ InSystem # {}
    /\ \A p \in OnCore(current_jobs_on_cores) : CurrentRemaining(p) > 0
    /\ time' = time + 1
    /\ arrived_now' = FALSE
    /\ last' = Call("tick", -1, NULL, -1, NoVictim)
    /\ UNCHANGED <<scheduler_scheme, core_count, current_jobs_on_cores, job_queue, job,
                   total_wait_time, total_response_time, total_turn_around_time,
                   total_jobs_count, fault, first_dispatch, finished_run, finish_calls,
                   queue_history>>

LiveNext == Arrival \/ JobFinished \/ QuantumExpired \/ Tick \/ Elapse

Fairness ==
    /\ WF_vars(JobFinished)
    /\ WF_vars(QuantumExpired)
    /\ WF_vars(Tick)
    /\ WF_vars(Elapse)

LiveSpec == Init /\ [][LiveNext]_vars /\ Fairness

----------------------------------------------------------------------------
\* Vocabulary of the properties.  A step is the call `last' names.

NewJobStep == last'.op = "new_job"
JobFinishedStep == last'.op = "job_finished"
QuantumExpiredStep == last'.op = "quantum_expired"

AllOccupied == \A c \in Cores : current_jobs_on_cores[c] # NULL

\* The number of places that hold job p: core slots and waiting positions.
Places(p) ==
    Cardinality({c \in Cores : current_jobs_on_cores[c] = p})
    + Cardinality({i \in 1..job_queue.curr_size : job_queue.queue_array[i] = p})

InQueue(q, p) == \E i \in 1..q.curr_size : q.queue_array[i] = p

\* The jobs of the heap other than those of S are what they were.
OtherJobsUnchanged(S) == \A p \in Pids \ S : job'[p] = job[p]

OtherCoresUnchanged(c) ==
    \A d \in Cores \ {c} : current_jobs_on_cores'[d] = current_jobs_on_cores[d]

----------------------------------------------------------------------------
\* C1: every job that has arrived and has not finished is held in exactly one
\* place, one core slot or one position of the waiting queue, and a job that
\* has finished (or has not arrived) is held nowhere.
C1_HeldInExactlyOnePlace ==
    \A p \in Pids : Places(p) = IF job[p].alloc = "live" THEN 1 ELSE 0

\* C2: under PSJF with every core occupied, the arrival displaces the job the
\* search selected iff its required time is strictly less than that job's
\* current remaining time; the displaced job is charged its elapsed run and
\* enqueued, the arrival takes its slot with dispatch time = time and the slot
\* is returned; otherwise the arrival is enqueued, -1 is returned and no core
\* slot changes.
C2_PsjfPreemption ==
    [][ (NewJobStep /\ scheduler_scheme = PSJF /\ AllOccupied) =>
        LET p == last'.pid
            v == last'.victim
            old == current_jobs_on_cores[v]
            elapsed == time - job[old].last_start_time
            current == job[old].total_time_needed - job[old].used_time - elapsed
        IN  /\ v \in Cores
            /\ IF job'[p].total_time_needed < current
               THEN /\ job'[old].used_time = job[old].used_time + elapsed
                    /\ InQueue(job_queue', old)
                    /\ job_queue'.curr_size = job_queue.curr_size + 1
                    /\ current_jobs_on_cores' = [current_jobs_on_cores EXCEPT ![v] = p]
                    /\ job'[p].last_start_time = time
                    /\ last'.ret = v
               ELSE /\ InQueue(job_queue', p)
                    /\ job_queue'.curr_size = job_queue.curr_size + 1
                    /\ last'.ret = -1
                    /\ current_jobs_on_cores' = current_jobs_on_cores
                    /\ OtherJobsUnchanged({p}) ]_vars

C2_Witness ==
    /\ scheduler_scheme = PSJF
    /\ last.op = "new_job"
    /\ last.victim \in Cores
    /\ last.ret = last.victim
    /\ current_jobs_on_cores[last.ret] = last.pid
    /\ job_queue.curr_size >= 1

\* C3: under PPRI with every core occupied, the victim the arrival handler
\* chooses is a running job of the largest priority value and, among those,
\* of the latest arrival; the arrival displaces it iff the victim's priority
\* value is strictly greater than its own, and is otherwise enqueued with -1
\* returned.
C3_PpriVictim ==
    [][ (NewJobStep /\ scheduler_scheme = PPRI /\ AllOccupied) =>
        LET p == last'.pid
            v == last'.victim
            old == current_jobs_on_cores[v]
            running == OnCore(current_jobs_on_cores)
        IN  /\ v \in Cores
            /\ \A r \in running : job[r].priority <= job[old].priority
            /\ \A r \in running : job[r].priority = job[old].priority
                                    => job[r].arrival_time <= job[old].arrival_time
            /\ IF job[old].priority > job'[p].priority
               THEN /\ current_jobs_on_cores' = [current_jobs_on_cores EXCEPT ![v] = p]
                    /\ InQueue(job_queue', old)
                    /\ last'.ret = v
               ELSE /\ InQueue(job_queue', p)
                    /\ current_jobs_on_cores' = current_jobs_on_cores
                    /\ last'.ret = -1 ]_vars

\* C4: the response time recorded in a job that has been dispatched is the
\* tick of its first dispatch minus its arrival tick, whatever has happened
\* to the job since.
C4_ResponseIsFirstDispatch ==
    \A p \in Pids :
        (job[p].alloc = "live" /\ first_dispatch[p] # -1)
            => job[p].job_response_time = first_dispatch[p] - job[p].arrival_time


\* C5: scheduler_job_finished with a job waiting frees the finished job,
\* takes the front job off the waiting queue, installs it on the freed core
\* with dispatch time = time and returns its pid; the other core slots and the
\* order of the jobs still waiting are unchanged.
C5_FinishedInstallsFront ==
    [][ (JobFinishedStep /\ job_queue.curr_size > 0) =>
        LET c == last'.core
            done == current_jobs_on_cores[c]
            front == job_queue.queue_array[1]
        IN  /\ job'[done].alloc = "freed"
            /\ done \notin OnCore(current_jobs_on_cores')
            /\ current_jobs_on_cores'[c] = front
            /\ job'[front].last_start_time = time
            /\ last'.ret = front
            /\ OtherCoresUnchanged(c)
            /\ Waiting(job_queue') = Tail(Waiting(job_queue)) ]_vars

C5_Witness ==
    /\ last.op = "job_finished"
    /\ last.ret # -1
    /\ current_jobs_on_cores[last.core] = last.ret
    /\ job_queue.curr_size >= 1

\* C6: under RR a quantum expiry charges the occupant its elapsed run, puts
\* it behind every job already waiting and installs the front of the waiting
\* queue on the core with dispatch time = time, returning its pid; with no
\* other job waiting the occupant itself is installed again.  The call never
\* returns -1 and never leaves the core idle.
C6_QuantumRotates ==
    [][ (QuantumExpiredStep /\ scheduler_scheme = RR) =>
        LET c == last'.core
            occupant == current_jobs_on_cores[c]
            waiting == Waiting(job_queue)
            next == IF waiting = <<>> THEN occupant ELSE Head(waiting)
        IN  /\ job'[occupant].used_time =
                   job[occupant].used_time + (time - job[occupant].last_start_time)
            /\ Waiting(job_queue') =
                   IF waiting = <<>> THEN <<>> ELSE Tail(waiting) \o <<occupant>>
            /\ current_jobs_on_cores'[c] = next
            /\ job'[next].last_start_time = time
            /\ last'.ret = next
            /\ last'.ret # -1
            /\ current_jobs_on_cores'[c] # NULL
            /\ OtherCoresUnchanged(c) ]_vars

C6_Witness ==
    /\ scheduler_scheme = RR
    /\ last.op = "quantum_expired"
    /\ last.ret # last.pid
    /\ current_jobs_on_cores[last.core] = last.ret
    /\ job_queue.curr_size >= 2
    /\ job_queue.queue_array[job_queue.curr_size] = last.pid

\* C7: under every scheme an arrival that finds a core idle is placed on the
\* idle slot of the lowest index with dispatch time = arrival time, that index
\* is returned, and the waiting queue and the other core slots are unchanged.
C7_IdleSlotAdmission ==
    [][ (NewJobStep /\ ~AllOccupied) =>
        LET p == last'.pid
            c == CHOOSE i \in Cores :
                    /\ current_jobs_on_cores[i] = NULL
                    /\ \A k \in Cores : k < i => current_jobs_on_cores[k] # NULL
        IN  /\ current_jobs_on_cores' = [current_jobs_on_cores EXCEPT ![c] = p]
            /\ job'[p].last_start_time = time
            /\ job'[p].arrival_time = time
            /\ last'.ret = c
            /\ job_queue' = job_queue
            /\ OtherJobsUnchanged({p}) ]_vars

C7_Witness ==
    /\ last.op = "new_job"
    /\ core_count = 2
    /\ last.ret = 0
    /\ current_jobs_on_cores[0] = last.pid
    /\ current_jobs_on_cores[1] = NULL
    /\ job[last.pid].last_start_time = time
    /\ time > 0

\* C8: under FCFS, RR, SJF and PRI an arrival that finds every core occupied
\* is inserted into the waiting queue, -1 is returned, and every core slot and
\* every running job's used time and dispatch time are unchanged.
C8_NonPreemptiveEnqueue ==
    [][ (NewJobStep /\ scheduler_scheme \in {FCFS, RR, SJF, PRI} /\ AllOccupied) =>
        LET p == last'.pid
        IN  /\ InQueue(job_queue', p)
            /\ job_queue'.curr_size = job_queue.curr_size + 1
            /\ \A q \in Pids \ {p} : InQueue(job_queue, q) <=> InQueue(job_queue', q)
            /\ last'.ret = -1
            /\ current_jobs_on_cores' = current_jobs_on_cores
            /\ \A r \in OnCore(current_jobs_on_cores) :
                   /\ job'[r].used_time = job[r].used_time
                   /\ job'[r].last_start_time = job[r].last_start_time ]_vars

C8_Witness ==
    /\ scheduler_scheme = PRI
    /\ last.op = "new_job"
    /\ last.ret = -1
    /\ InQueue(job_queue, last.pid)
    /\ \E r \in OnCore(current_jobs_on_cores) : job[r].priority > job[last.pid].priority

\* C9: a job goes from a core slot back to the waiting queue only by an
\* arrival under PSJF or PPRI or by a quantum expiry under RR; under FCFS, SJF
\* and PRI a job on a core stays on that core until its own
\* scheduler_job_finished call; and a job is finished only from a core slot.
C9_RunningUntilFinished ==
    [][ /\ \A p \in OnCore(current_jobs_on_cores) :
               InQueue(job_queue', p) =>
                   \/ scheduler_scheme \in {PSJF, PPRI} /\ NewJobStep
                   \/ scheduler_scheme = RR /\ QuantumExpiredStep
        /\ scheduler_scheme \in {FCFS, SJF, PRI} =>
               \A c \in Cores :
                   LET p == current_jobs_on_cores[c]
                   IN  p # NULL =>
                         \/ current_jobs_on_cores'[c] = p /\ job'[p].alloc = "live"
                         \/ /\ JobFinishedStep
                            /\ last'.core = c
                            /\ last'.pid = p
                            /\ job'[p].alloc = "freed"
        /\ \A p \in Pids :
               (job[p].alloc = "live" /\ job'[p].alloc = "freed") =>
                   /\ p \in OnCore(current_jobs_on_cores)
                   /\ ~InQueue(job_queue, p)
                   /\ JobFinishedStep ]_vars

C9_Witness ==
    /\ scheduler_scheme = PRI
    /\ core_count = 2
    /\ last.op = "job_finished"
    /\ last.ret # -1
    /\ \E c \in Cores :
          /\ c # last.core
          /\ current_jobs_on_cores[c] # NULL
          /\ job[current_jobs_on_cores[c]].last_start_time < time
          /\ job[current_jobs_on_cores[c]].priority > job[last.ret].priority

\* C10: the cumulative turnaround time is the cumulative wait time plus the
\* required run times of the finished jobs, the completed-job count is the
\* number of scheduler_job_finished calls, and each average is its cumulative
\* total over the number of finished jobs.
C10_Accounting ==
    /\ total_turn_around_time = total_wait_time + finished_run
    /\ total_jobs_count = finish_calls
    /\ finish_calls > 0 =>
          /\ scheduler_average_waiting_time = <<total_wait_time, finish_calls>>
          /\ scheduler_average_turnaround_time = <<total_turn_around_time, finish_calls>>
          /\ scheduler_average_response_time = <<total_response_time, finish_calls>>

C10_Witness ==
    /\ finish_calls >= 2
    /\ total_wait_time > 0
    /\ total_turn_around_time > total_wait_time


\* C11: scheduler_job_finished with no job waiting returns -1 and leaves the
\* freed core idle and the other slots as they were; and while no job has
\* finished each average is 0, with nothing divided by zero.
C11_EmptyQueueFinish ==
    [][ /\ (JobFinishedStep /\ job_queue.curr_size = 0) =>
              /\ last'.ret = -1
              /\ current_jobs_on_cores' =
                     [current_jobs_on_cores EXCEPT ![last'.core] = NULL]
              /\ job_queue'.curr_size = 0
        /\ total_jobs_count = 0 =>
              \A average \in {scheduler_average_waiting_time,
                              scheduler_average_turnaround_time,
                              scheduler_average_response_time} :
                  average[1] = 0 /\ average[2] # 0 ]_vars

C11_Witness ==
    /\ last.op = "job_finished"
    /\ last.ret = -1
    /\ current_jobs_on_cores[last.core] = NULL
    /\ job[last.pid].alloc = "freed"
    /\ \E c \in Cores : current_jobs_on_cores[c] # NULL

C13_FifoPoll ==
    [][ (/\ last'.op = "priqueue_poll"
         /\ scheduler_scheme = FCFS
         /\ ~remove_at_called) =>
            /\ last'.ret = IF polls < Len(offered) THEN offered[polls + 1]
                                                   ELSE NULL
            /\ Waiting(job_queue') =
                   SubSeq(offered, polls' + 1, Len(offered)) ]_vars

C13_Witness ==
    /\ scheduler_scheme = FCFS
    /\ last.op = "priqueue_poll"
    /\ ~remove_at_called
    /\ polls >= 2
    /\ Len(offered) > polls
    /\ offered[polls - 1] # offered[polls]
    /\ last.ret = offered[polls]
    /\ offered[polls + 1] # offered[polls]

\* C14: the occupied count stays below the capacity of the array; and after
\* N calls of priqueue_offer with nothing removed, across the doublings of the
\* capacity, priqueue_size is N and priqueue_at finds every element offered at
\* an index in 0..N-1.
C14_OffersAllKept ==
    /\ job_queue.curr_size < job_queue.max_size
    /\ (polls = 0 /\ ~remove_at_called) =>
          /\ priqueue_size(job_queue) = Len(offered)
          /\ \A k \in 1..Len(offered) :
                \E index \in 0..(Len(offered) - 1) :
                    priqueue_at(job_queue, index) = {offered[k]}
          /\ \A ptr \in QPtrs :
                Cardinality({k \in 1..Len(offered) : offered[k] = ptr}) =
                Cardinality({i \in 1..job_queue.curr_size :
                                job_queue.queue_array[i] = ptr})

C14_Witness ==
    /\ polls = 0
    /\ ~remove_at_called
    /\ Len(offered) >= 4
    /\ job_queue.max_size = 8
    /\ last.op = "priqueue_size"
    /\ last.ret = 4
    /\ \E k \in 1..Len(offered) : offered[k] # offered[1]

\* C15: priqueue_peek leaves the queue as it was and returns its front
\* element, and returns NULL whenever the queue holds no element, fresh or
\* emptied by polls.
C15_PeekFrontOrNull ==
    [][ last'.op = "priqueue_peek" =>
            /\ job_queue' = job_queue
            /\ last'.ret = IF job_queue.curr_size = 0
                           THEN NULL
                           ELSE job_queue.queue_array[1] ]_vars

\* C16: priqueue_at returns the element at the index when the index is below
\* priqueue_size, and NULL for every other index, those between the size and
\* the capacity included.
C16_AtOccupiedOrNull ==
    [][ last'.op = "priqueue_at" =>
            last'.ret = IF 0 <= last'.core /\ last'.core < job_queue.curr_size
                        THEN job_queue.queue_array[last'.core + 1]
                        ELSE NULL ]_vars

\* C17: priqueue_remove_at of an occupied index returns the element there,
\* makes priqueue_size one less, and keeps the other elements in their order,
\* the later ones one position up.
C17_RemoveAtCompacts ==
    [][ (last'.op = "priqueue_remove_at" /\ ~remove_at_called) =>
            /\ last'.ret = job_queue.queue_array[last'.core + 1]
            /\ priqueue_size(job_queue') = priqueue_size(job_queue) - 1
            /\ Waiting(job_queue') =
                   SubSeq(Waiting(job_queue), 1, last'.core)
                   \o SubSeq(Waiting(job_queue), last'.core + 2,
                             job_queue.curr_size) ]_vars

\* C18: under PSJF, when scheduler_new_job enqueues the arrival and returns
\* -1 with every core occupied, no job on a core has more left to run at that
\* time than the arrival needs.
C18_PsjfEnqueueOnlyBehindShorter ==
    [][ (/\ NewJobStep
         /\ scheduler_scheme = PSJF
         /\ AllOccupied
         /\ last'.ret = -1) =>
            \A r \in OnCore(current_jobs_on_cores) :
                CurrentRemaining(r) <= job'[last'.pid].total_time_needed ]_vars

\* C19: under PPRI, when every core is occupied, the victim search of
\* scheduler_new_job yields a core of 0..core_count-1, so the handler never
\* touches the core array at index -1.
C19_PpriVictimInRange ==
    [][ (NewJobStep /\ scheduler_scheme = PPRI /\ AllOccupied) =>
            /\ findWorstPriorityJob(current_jobs_on_cores, job, core_count) \in Cores
            /\ ~fault' ]_vars

\* C20: under every scheme, whenever a core is idle no job waits in the
\* queue.
C20_WorkConserving ==
    (\E c \in Cores : current_jobs_on_cores[c] = NULL) =>
        job_queue.curr_size = 0

C20_Witness ==
    /\ \E c \in Cores : current_jobs_on_cores[c] = NULL
    /\ \E c \in Cores : current_jobs_on_cores[c] # NULL
    /\ last.op = "job_finished"
    /\ last.ret = -1
    /\ finish_calls >= 2
    /\ \E p \in Pids : job[p].alloc = "live" /\ job[p].used_time > 0

\* C21: under every scheme, with the arrivals over and the driver reporting
\* each finish and each quantum expiry that is due, every job that arrived is
\* eventually on a core and eventually finished, and the system comes to rest
\* with every core idle, the queue empty and as many jobs counted finished as
\* arrived.
Arrived == {p \in Pids : job[p].alloc # "none"}

AtRest ==
    /\ \A c \in Cores : current_jobs_on_cores[c] = NULL
    /\ job_queue.curr_size = 0
    /\ total_jobs_count = Cardinality(Arrived)

C21_EveryJobFinishes ==
    /\ \A p \in Pids :
          /\ (job[p].alloc = "live") ~> (p \in OnCore(current_jobs_on_cores))
          /\ (job[p].alloc = "live") ~> (job[p].alloc = "freed")
    /\ <>[]AtRest

====
